---- MODULE Spec2Model ----
(***************************************************************************)
(* nxsim/agents.py: agents on the nodes of a shared networkx graph, the    *)
(* environment agent that grows the graph, and the LoggingAgent that       *)
(* samples states and topology.                                            *)
(*                                                                         *)
(* Python values are encoded as strings holding their literal ("None",     *)
(* "''", "'S'", "7", "['S']"); ids are integers, with NoneId standing for  *)
(* None in an id slot.  Agent objects are handles into the sequence        *)
(* `agents` (object identity = handle).                                    *)
(***************************************************************************)
EXTENDS Integers, Sequences, FiniteSets, TLC

VARIABLES
    G,               \* sim.G: [nodes: insertion-ordered node ids, agent: id -> handle, adj: edge -> data]
    id_counter,      \* sim.id_counter
    agents,          \* every agent object constructed so far: handle -> [id, state, cls]
    processes,       \* handles whose run() was registered with env.process
    now,             \* env.now
    runState,        \* "running", or "crashed" once an exception left a process
    interval,        \* LoggingAgent.interval
    loggerWake,      \* time of the logger's pending timeout
    state_tuples,    \* LoggingAgent.state_tuples
    topology_tuples, \* LoggingAgent.topology_tuples
    topology,        \* LoggingAgent.topology (structure-only snapshot)
    persisted,       \* what utils.log_all_to_file has been handed, one record per call
    lastCall,        \* the last operation called, its arguments and its outcome
    returned,        \* history: [id, obj] of each add_node that returned, in call order
    removed          \* history: ids for which remove_node returned normally

vars == <<G, id_counter, agents, processes, now, runState, interval, loggerWake,
          state_tuples, topology_tuples, topology, persisted, lastCall, returned, removed>>

simVars == <<G, id_counter, agents, processes>>
logVars == <<interval, loggerWake, state_tuples, topology_tuples, topology, persisted>>

----------------------------------------------------------------------------
(* Bounds *)
MaxId == 2          \* add_node is called while id_counter < MaxId
MaxBoot == 1        \* a run starts with 0..MaxBoot nodes
MaxEdges == 2       \* add_edge creates a new edge while fewer than MaxEdges exist
MaxTime == 2        \* the clock advances while now < MaxTime
MaxInterval == 2    \* logging_interval is drawn from 1..MaxInterval
MaxDirect == 1      \* agents are constructed directly while at most MaxDirect objects exist
MaxTrials == 2      \* log_trial_to_files hands over while fewer than MaxTrials hand-overs were made

(* Program constants *)
ENV_ID == -1        \* agent_id of the environment agent
NoneId == -2        \* encoding of None where an id is expected
EnvHandle == 1      \* the environment agent is the first object of a run

----------------------------------------------------------------------------
(* Python values *)
PyNone == "None"
Sized == {"''", "'S'", "'I'", "[]", "['S']", "'environment_agent'"}
Scalars == {"7"}
PyValues == {PyNone} \cup Sized \cup Scalars

\* len(v) for the sized values
PyLen(v) == IF v \in {"''", "[]"} THEN 0 ELSE 1

StateVals == {"'S'", "'I'"}

NoErr == [type |-> "", name |-> "", id |-> 0]
Err(t) == [type |-> t, name |-> "", id |-> 0]

Range(s) == {s[i] : i \in DOMAIN s}

----------------------------------------------------------------------------
(* networkx.Graph *)
EdgeKey(a, b) == {a, b}

NodeSet(g) == Range(g.nodes)

HasNode(g, n) == n \in NodeSet(g)

HasEdge(g, a, b) == EdgeKey(a, b) \in DOMAIN g.adj

\* Graph.neighbors(n) for a node n of g: the keys of adj[n]
Neighbors(g, n) == SelectSeq(g.nodes, LAMBDA m : HasEdge(g, n, m))

\* the node is created but bound to the environment agent's object
GraphAddNode_wrong_binding(g, n, h) ==
    [g EXCEPT !.nodes = IF HasNode(g, n) THEN @ ELSE Append(@, n),
              !.agent = [m \in NodeSet(g) \cup {n} |-> IF m = n THEN 1 ELSE g.agent[m]]]

\* Graph.add_node(n, {'agent': h}): a new node is appended, an existing one rebound
GraphAddNode(g, n, h) ==
    [g EXCEPT !.nodes = IF HasNode(g, n) THEN @ ELSE Append(@, n),
              !.agent = [m \in NodeSet(g) \cup {n} |-> IF m = n THEN h ELSE g.agent[m]]]

\* the node goes, its incident edges stay
GraphRemoveNode_keeps_edges(g, n) ==
    [nodes |-> SelectSeq(g.nodes, LAMBDA m : m # n),
     agent |-> [m \in NodeSet(g) \ {n} |-> g.agent[m]],
     adj   |-> g.adj]

\* Graph.remove_node(n) for a node n of g: the node and its incident edges go
GraphRemoveNode(g, n) ==
    [nodes |-> SelectSeq(g.nodes, LAMBDA m : m # n),
     agent |-> [m \in NodeSet(g) \ {n} |-> g.agent[m]],
     adj   |-> [e \in {x \in DOMAIN g.adj : n \notin x} |-> g.adj[e]]]

\* Graph.add_edge(u, v, attr_dict=None, **attr): datadict.update(attr)
GraphAddEdge(g, u, v, attr) ==
    LET e == EdgeKey(u, v)
        old == IF e \in DOMAIN g.adj THEN g.adj[e] ELSE [k \in {} |-> ""]
        new == [k \in DOMAIN old \cup DOMAIN attr |->
                   IF k \in DOMAIN attr THEN attr[k] ELSE old[k]]
    IN [g EXCEPT !.adj = [x \in DOMAIN g.adj \cup {e} |-> IF x = e THEN new ELSE g.adj[x]]]

----------------------------------------------------------------------------
(* BaseAgent.__init__ *)
Params == {"environment", "agent_id", "state", "global_topology"}

\* classes: the base types define no run(); "Agent" is a subclass with a generator run()
Classes == {"BaseAgent", "BaseNetworkAgent", "Agent"}

\* BaseEnvironmentAgent, and a subclass of it with a generator run()
EnvClasses == {"BaseEnvironmentAgent", "EnvironmentAgent"}

DefinesRun(cls) == cls \in {"Agent", "EnvironmentAgent"}

\* run() is not called by the constructor
InitOutcome_run_not_called(cls, environment, agent_id, state, global_topology) ==
    IF environment = PyNone THEN "AssertionError"
    ELSE IF agent_id = NoneId THEN "AssertionError"
    ELSE IF state \notin Sized THEN "TypeError"
    ELSE IF PyLen(state) = 0 THEN "AssertionError"
    ELSE IF global_topology = PyNone THEN "AssertionError"
    ELSE ""

\* the outcome of BaseAgent.__init__ with the defaults already applied
InitOutcome(cls, environment, agent_id, state, global_topology) ==
    IF environment = PyNone THEN "AssertionError"
    ELSE IF agent_id = NoneId THEN "AssertionError"
    ELSE IF state \notin Sized THEN "TypeError"
    ELSE IF PyLen(state) = 0 THEN "AssertionError"
    ELSE IF global_topology = PyNone THEN "AssertionError"
    ELSE IF ~DefinesRun(cls) THEN "NotImplementedError"
    ELSE ""

----------------------------------------------------------------------------
(* BaseAgent queries *)
get_all_nodes(g) == g.nodes

AgentsOf(g, ns) == [i \in 1..Len(ns) |-> g.agent[ns[i]]]

\* the state filter is applied to the whole population only
get_agents_neighbors_unfiltered(g, ags, self_id, state, limit_neighbors) ==
    IF limit_neighbors /\ ~HasNode(g, self_id)
    THEN [err |-> Err("NetworkXError"), val |-> <<>>]
    ELSE LET sel == IF limit_neighbors THEN Neighbors(g, self_id) ELSE get_all_nodes(g)
             hs  == AgentsOf(g, sel)
         IN [err |-> NoErr,
             val |-> IF state = PyNone \/ limit_neighbors THEN hs
                     ELSE SelectSeq(hs, LAMBDA h : ags[h].state = state)]

\* state=None is filtered like any other state
get_agents_filters_none(g, ags, self_id, state, limit_neighbors) ==
    IF limit_neighbors /\ ~HasNode(g, self_id)
    THEN [err |-> Err("NetworkXError"), val |-> <<>>]
    ELSE LET sel == IF limit_neighbors THEN Neighbors(g, self_id) ELSE get_all_nodes(g)
             hs  == AgentsOf(g, sel)
         IN [err |-> NoErr,
             val |-> SelectSeq(hs, LAMBDA h : ags[h].state = state)]

get_agents(g, ags, self_id, state, limit_neighbors) ==
    IF limit_neighbors /\ ~HasNode(g, self_id)
    THEN [err |-> Err("NetworkXError"), val |-> <<>>]
    ELSE LET sel == IF limit_neighbors THEN Neighbors(g, self_id) ELSE get_all_nodes(g)
             hs  == AgentsOf(g, sel)
         IN [err |-> NoErr,
             val |-> IF state = PyNone THEN hs
                     ELSE SelectSeq(hs, LAMBDA h : ags[h].state = state)]

get_agent(g, agent_id) ==
    IF HasNode(g, agent_id)
    THEN [err |-> NoErr, val |-> <<g.agent[agent_id]>>]
    ELSE [err |-> Err("KeyError"), val |-> <<>>]

----------------------------------------------------------------------------
(* The state at the start of a run *)
NoData == [k \in {} |-> ""]
EmptyTopology == [nodes |-> {}, edges |-> {}]

BootEdges(n) == {EdgeKey(a, b) : a \in 0..(n - 1), b \in 0..(n - 1)}

\* the simulation's bootstrap: nodes 0..n-1, each bound to its own agent, some edges,
\* the counter at n, and the environment agent as the first object
InitSim ==
    \E n \in 0..MaxBoot :
      \E st \in [0..(n - 1) -> StateVals] :
        \E es \in SUBSET BootEdges(n) :
          /\ Cardinality(es) <= MaxEdges
          /\ G = [nodes |-> [i \in 1..n |-> i - 1],
                  agent |-> [m \in 0..(n - 1) |-> m + 2],
                  adj   |-> [e \in es |-> NoData]]
          /\ id_counter = n
          /\ agents = [h \in 1..(n + 1) |->
                         IF h = EnvHandle
                         THEN [id |-> ENV_ID, state |-> "'environment_agent'", cls |-> "Agent"]
                         ELSE [id |-> h - 2, state |-> st[h - 2], cls |-> "Agent"]]
          /\ processes = 1..(n + 1)
          /\ now = 0
          /\ runState = "running"

\* LoggingAgent.__init__: empty lists, an empty snapshot, the process started
InitLogger ==
    /\ interval \in 1..MaxInterval
    /\ loggerWake = 0
    /\ state_tuples = <<>>
    /\ topology_tuples = <<>>
    /\ topology = EmptyTopology
    /\ persisted = <<>>

Init ==
    /\ InitSim
    /\ InitLogger
    /\ lastCall = [op |-> "none"]
    /\ returned = <<>>
    /\ removed = {}

----------------------------------------------------------------------------
(* BaseEnvironmentAgent.add_node *)
AgentTypes == {PyNone, "BaseNetworkAgent", "Agent"}
AddStates == {PyNone, "''", "7", "'S'", "'I'"}

\* the agent is given the id after the counter's
AllocId_one_ahead(counter) == counter + 1

\* agent_id = int(self.sim.id_counter)
AllocId(counter) == counter

\* the counter is left where it was
NextCounter_stale(counter) == counter

\* self.sim.id_counter += 1
NextCounter(counter) == counter + 1

\* agent_type(self.sim.env, agent_id=agent_id, state=state, global_topology=self.sim.G, ...)
AddNodeOutcome(agent_type, agent_id, state) ==
    IF agent_type = PyNone THEN "TypeError"
    ELSE InitOutcome(agent_type, "env", agent_id, state, "G")

add_node(agent_type, state) ==
    /\ runState = "running"
    /\ id_counter < MaxId
    /\ LET agent_id == AllocId(id_counter)
           out == AddNodeOutcome(agent_type, agent_id, state)
           h == Len(agents) + 1
       IN IF out = ""
          THEN /\ agents' = Append(agents, [id |-> agent_id, state |-> state, cls |-> agent_type])
               /\ processes' = processes \cup {h}
               /\ G' = GraphAddNode(G, id_counter, h)
               /\ id_counter' = NextCounter(id_counter)
               /\ returned' = Append(returned, [id |-> agent_id, obj |-> h])
               /\ lastCall' = [op |-> "add_node", err |-> NoErr, val |-> <<agent_id>>,
                               state |-> state, obj |-> h]
          ELSE /\ UNCHANGED <<simVars, returned>>
               /\ lastCall' = [op |-> "add_node", err |-> Err(out), val |-> <<>>,
                               state |-> state, obj |-> 0]
    /\ UNCHANGED <<now, runState, logVars, removed>>

----------------------------------------------------------------------------
(* BaseEnvironmentAgent.add_edge *)
IdInputs == ENV_ID..MaxId

\* agent_id2 is validated before agent_id1
add_edge_error_second_first(g, agent_id1, agent_id2) ==
    IF HasNode(g, agent_id2)
    THEN IF HasNode(g, agent_id1)
         THEN NoErr
         ELSE [type |-> "ValueError", name |-> "agent_id1", id |-> agent_id1]
    ELSE [type |-> "ValueError", name |-> "agent_id2", id |-> agent_id2]

\* the validation of lines 190-196: the error raised, or NoErr
add_edge_error(g, agent_id1, agent_id2) ==
    IF HasNode(g, agent_id1)
    THEN IF HasNode(g, agent_id2)
         THEN NoErr
         ELSE [type |-> "ValueError", name |-> "agent_id2", id |-> agent_id2]
    ELSE [type |-> "ValueError", name |-> "agent_id1", id |-> agent_id1]

\* the keyword arguments Graph.add_edge receives: edge_attr_dict=edge_attr_dict
EdgeKwargs(edge_attr_dict) == [k \in {"edge_attr_dict"} |-> edge_attr_dict]

\* Graph.add_edge is called before the endpoints are validated
add_edge_inserts_first(agent_id1, agent_id2, edge_attr_dict) ==
    /\ runState = "running"
    /\ LET e == add_edge_error(G, agent_id1, agent_id2)
       IN /\ lastCall' = [op |-> "add_edge", err |-> e, val |-> <<>>]
          /\ HasEdge(G, agent_id1, agent_id2) \/ Cardinality(DOMAIN G.adj) < MaxEdges
          /\ G' = GraphAddEdge(G, agent_id1, agent_id2, EdgeKwargs(edge_attr_dict))
    /\ UNCHANGED <<id_counter, agents, processes, now, runState, logVars, returned, removed>>

add_edge(agent_id1, agent_id2, edge_attr_dict) ==
    /\ runState = "running"
    /\ LET e == add_edge_error(G, agent_id1, agent_id2)
       IN /\ lastCall' = [op |-> "add_edge", err |-> e, val |-> <<>>]
          /\ IF e = NoErr
             THEN /\ HasEdge(G, agent_id1, agent_id2) \/ Cardinality(DOMAIN G.adj) < MaxEdges
                  /\ G' = GraphAddEdge(G, agent_id1, agent_id2, EdgeKwargs(edge_attr_dict))
             ELSE G' = G
    /\ UNCHANGED <<id_counter, agents, processes, now, runState, logVars, returned, removed>>

\* edge_attr_dict arguments: dictionaries from attribute name to value
AttrInputs == {[k \in {"weight"} |-> 1], [k \in {"weight"} |-> 2]}

\* BaseEnvironmentAgent.log_topology: return NotImplementedError(), an exception
\* object handed back as the value of the call; nothing is raised
log_topology ==
    /\ runState = "running"
    /\ lastCall' = [op |-> "log_topology", err |-> NoErr, val |-> <<"NotImplementedError()">>]
    /\ UNCHANGED <<simVars, now, runState, logVars, returned, removed>>

----------------------------------------------------------------------------
(* BaseAgent.remove_node, die, get_agent, get_agents, and the writable state *)
Handles == 1..Len(agents)

remove_node(caller, agent_id) ==
    /\ runState = "running"
    /\ caller \in Handles
    /\ IF HasNode(G, agent_id)
       THEN /\ G' = GraphRemoveNode(G, agent_id)
            /\ removed' = removed \cup {agent_id}
            /\ lastCall' = [op |-> "remove_node", err |-> NoErr, val |-> <<>>]
       ELSE /\ UNCHANGED <<G, removed>>
            /\ lastCall' = [op |-> "remove_node", err |-> Err("NetworkXError"), val |-> <<>>]
    /\ UNCHANGED <<id_counter, agents, processes, now, runState, logVars, returned>>

\* self.remove_node(self.id)
die(caller) == remove_node(caller, agents[caller].id)

GetAgent(caller, agent_id) ==
    /\ runState = "running"
    /\ caller \in Handles
    /\ LET r == get_agent(G, agent_id)
       IN lastCall' = [op |-> "get_agent", err |-> r.err, val |-> r.val]
    /\ UNCHANGED <<simVars, now, runState, logVars, returned, removed>>

GetAgents(caller, state, limit_neighbors) ==
    /\ runState = "running"
    /\ LET r == get_agents(G, agents, agents[caller].id, state, limit_neighbors)
       IN lastCall' = [op |-> "get_agents", err |-> r.err, val |-> r.val]
    /\ UNCHANGED <<simVars, now, runState, logVars, returned, removed>>

\* a behaviour routine assigns self.state
SetState(h, state) ==
    /\ runState = "running"
    /\ h # EnvHandle
    /\ agents[h].state # state
    /\ agents' = [agents EXCEPT ![h].state = state]
    /\ lastCall' = [op |-> "set_state"]
    /\ UNCHANGED <<G, id_counter, processes, now, runState, logVars, returned, removed>>

----------------------------------------------------------------------------
(* The processes registered by line 53, as the scheduler runs them *)

\* the scheduler resumes process h at its pending event: one pass of the loop of a
\* subclass's run(), which looks at the population (get_all_agents) and yields again
Resume(h) ==
    /\ runState = "running"
    /\ h \in processes
    /\ LET r == get_agents(G, agents, agents[h].id, PyNone, FALSE)
       IN lastCall' = [op |-> "resume", caller |-> h, err |-> r.err, val |-> r.val]
    /\ UNCHANGED <<simVars, now, runState, logVars, returned, removed>>

\* run() returns at a resumption: the scheduler ends the process.  Nothing in
\* agents.py makes a routine return; whether it does is the subclass's choice.
RoutineReturns(h) ==
    /\ runState = "running"
    /\ h \in processes
    /\ h # EnvHandle
    /\ processes' = processes \ {h}
    /\ lastCall' = [op |-> "return", caller |-> h]
    /\ UNCHANGED <<G, id_counter, agents, now, runState, logVars, returned, removed>>

----------------------------------------------------------------------------
(* networkx structure tests used by the logger *)

\* nx.Graph(self.sim.G): the nodes and edges of the shared graph
StructureOf(g) == [nodes |-> NodeSet(g), edges |-> DOMAIN g.adj]

\* utils.create_copy_without_data(G): a structure-only copy
create_copy_without_data(g) == StructureOf(g)

Nbrs(t, v) == {w \in t.nodes : {v, w} \in t.edges}

\* Graph.degree: a self-loop counts twice
Degree(t, v) == Cardinality(Nbrs(t, v)) + (IF v \in Nbrs(t, v) THEN 1 ELSE 0)

\* nx.triangles: self-loops are left out
Triangles(t, v) ==
    LET vs == Nbrs(t, v) \ {v}
    IN Cardinality({p \in vs \X vs : p[1] # p[2] /\ {p[1], p[2]} \in t.edges}) \div 2

Props(t, v) == <<Degree(t, v), Triangles(t, v)>>

\* the order test is inverted
fast_could_be_isomorphic_order_inverted(t1, t2) ==
    /\ Cardinality(t1.nodes) # Cardinality(t2.nodes)
    /\ \A p \in {Props(t1, v) : v \in t1.nodes} \cup {Props(t2, v) : v \in t2.nodes} :
          Cardinality({v \in t1.nodes : Props(t1, v) = p})
              = Cardinality({v \in t2.nodes : Props(t2, v) = p})

\* order, then the sorted [degree, triangles] lists
fast_could_be_isomorphic(t1, t2) ==
    /\ Cardinality(t1.nodes) = Cardinality(t2.nodes)
    /\ \A p \in {Props(t1, v) : v \in t1.nodes} \cup {Props(t2, v) : v \in t2.nodes} :
          Cardinality({v \in t1.nodes : Props(t1, v) = p})
              = Cardinality({v \in t2.nodes : Props(t2, v) = p})

----------------------------------------------------------------------------
(* LoggingAgent *)

\* the states of every agent object, instead of those bound to the nodes
CurrentStates_all_objects(g, ags) == [i \in 1..Len(ags) |-> ags[i].state]

\* states = [node[1]['agent'].state for node in nodes]
CurrentStates(g, ags) == [i \in 1..Len(g.nodes) |-> ags[g.agent[g.nodes[i]]].state]

\* self.env.now(): env.now is the number read at line 237, and calling a number raises
env_now_call(t) == [err |-> Err("TypeError"), val |-> t]

\* the list of StateTuples is replaced by the new record instead of extended
log_current_state_keeps_last ==
    /\ runState = "running"
    /\ loggerWake = now
    /\ state_tuples' = <<[time |-> now, states |-> CurrentStates(G, agents)]>>
    /\ lastCall' = [op |-> "log_current_state"]
    /\ IF ~fast_could_be_isomorphic(topology, StructureOf(G))
       THEN /\ topology' = create_copy_without_data(G)
            /\ LET t == env_now_call(now)
               IN IF t.err = NoErr
                  THEN /\ topology_tuples' = Append(topology_tuples,
                                                    [time |-> t.val, topology |-> topology'])
                       /\ loggerWake' = now + interval
                       /\ UNCHANGED runState
                  ELSE /\ runState' = "crashed"
                       /\ UNCHANGED <<topology_tuples, loggerWake>>
       ELSE /\ loggerWake' = now + interval
            /\ UNCHANGED <<topology, topology_tuples, runState>>
    /\ UNCHANGED <<simVars, now, interval, persisted, returned, removed>>

\* one pass of the loop of run(): log_current_state(), then yield env.timeout(interval)
log_current_state ==
    /\ runState = "running"
    /\ loggerWake = now
    /\ state_tuples' = Append(state_tuples, [time |-> now, states |-> CurrentStates(G, agents)])
    /\ lastCall' = [op |-> "log_current_state"]
    /\ IF ~fast_could_be_isomorphic(topology, StructureOf(G))
       THEN /\ topology' = create_copy_without_data(G)
            /\ LET t == env_now_call(now)
               IN IF t.err = NoErr
                  THEN /\ topology_tuples' = Append(topology_tuples,
                                                    [time |-> t.val, topology |-> topology'])
                       /\ loggerWake' = now + interval
                       /\ UNCHANGED runState
                  ELSE /\ runState' = "crashed"
                       /\ UNCHANGED <<topology_tuples, loggerWake>>
       ELSE /\ loggerWake' = now + interval
            /\ UNCHANGED <<topology, topology_tuples, runState>>
    /\ UNCHANGED <<simVars, now, interval, persisted, returned, removed>>

\* the scheduler advances the clock once no event is pending at the current time
Advance ==
    /\ runState = "running"
    /\ now < MaxTime
    /\ loggerWake > now
    /\ now' = now + 1
    /\ lastCall' = [op |-> "advance"]
    /\ UNCHANGED <<simVars, runState, logVars, returned, removed>>

\* the argument check is skipped
log_trial_error_unchecked(trial_id) == NoErr

\* assert trial_id is not None, TypeError(...)
log_trial_error(trial_id) == IF trial_id = NoneId THEN Err("AssertionError") ELSE NoErr

\* utils.log_all_to_file(states=..., dir_path=..., trial_id=...): the collaborator
\* receives the list it is passed, keyed by trial_id
log_all_to_file(received, states, trial_id) ==
    Append(received, [states |-> states, trial_id |-> trial_id])

TrialArgs == {NoneId, 0, 1}

\* called by the simulation on the logger object, during or after the run
log_trial_to_files(trial_id) ==
    /\ LET e == log_trial_error(trial_id)
       IN /\ lastCall' = [op |-> "log_trial_to_files", err |-> e, val |-> <<>>]
          /\ IF e = NoErr
             THEN /\ Len(persisted) < MaxTrials
                  /\ persisted' = log_all_to_file(persisted, state_tuples, trial_id)
             ELSE persisted' = persisted
    /\ UNCHANGED <<simVars, now, runState, interval, loggerWake, state_tuples,
                   topology_tuples, topology, returned, removed>>

----------------------------------------------------------------------------
(* Direct construction of an agent, with some of the keyword arguments given *)
DefaultId == 0      \* agent_id=0 in the signature of BaseAgent.__init__

EnvArgs == {PyNone, "env"}
IdArgs == {NoneId, 0, 1}
TopologyArgs == {PyNone, "G"}

\* a call gives a subset of the parameters; the others take their defaults
Calls ==
    {c \in [cls : Classes, given : SUBSET Params, environment : EnvArgs, agent_id : IdArgs,
            state : PyValues, global_topology : TopologyArgs] :
        /\ "environment" \notin c.given => c.environment = PyNone
        /\ "agent_id" \notin c.given => c.agent_id = DefaultId
        /\ "state" \notin c.given => c.state = PyNone
        /\ "global_topology" \notin c.given => c.global_topology = PyNone}

Construct(c) ==
    /\ runState = "running"
    /\ Len(agents) <= MaxDirect
    /\ LET out == InitOutcome(c.cls, c.environment, c.agent_id, c.state, c.global_topology)
           h == Len(agents) + 1
       IN /\ lastCall' = [op |-> "__init__", call |-> c, err |-> Err(out),
                          obj |-> IF out = "" THEN h ELSE 0]
          /\ IF out = ""
             THEN /\ agents' = Append(agents, [id |-> c.agent_id, state |-> c.state, cls |-> c.cls])
                  /\ processes' = processes \cup {h}
             ELSE UNCHANGED <<agents, processes>>
    /\ UNCHANGED <<G, id_counter, now, runState, logVars, returned, removed>>

SimArgs == {PyNone, "sim"}

\* BaseEnvironmentAgent.__init__: the assertion on simulation, then BaseAgent.__init__
\* with agent_id=-1 and state='environment_agent'
EnvInitOutcome(cls, simulation) ==
    IF simulation = PyNone THEN "AssertionError"
    ELSE InitOutcome(cls, "env", ENV_ID, "'environment_agent'", "G")

ConstructEnv(cls, simulation) ==
    /\ runState = "running"
    /\ Len(agents) <= MaxDirect
    /\ LET out == EnvInitOutcome(cls, simulation)
           h == Len(agents) + 1
       IN /\ lastCall' = [op |-> "BaseEnvironmentAgent.__init__", cls |-> cls,
                          err |-> Err(out), obj |-> IF out = "" THEN h ELSE 0]
          /\ IF out = ""
             THEN /\ agents' = Append(agents, [id |-> ENV_ID, state |-> "'environment_agent'",
                                               cls |-> cls])
                  /\ processes' = processes \cup {h}
             ELSE UNCHANGED <<agents, processes>>
    /\ UNCHANGED <<G, id_counter, now, runState, logVars, returned, removed>>

----------------------------------------------------------------------------
(* Specifications *)

\* the agents' operations on the shared topology, called in any order
Next ==
    \/ \E t \in AgentTypes, s \in AddStates : add_node(t, s)
    \/ \E a, b \in IdInputs : add_edge(a, b, PyNone)
    \/ \E h \in Handles, k \in IdInputs : remove_node(h, k)
    \/ \E h \in Handles : die(h)
    \/ \E k \in IdInputs : GetAgent(EnvHandle, k)
    \/ \E h \in Handles, s \in StateVals \cup {PyNone}, l \in BOOLEAN : GetAgents(h, s, l)
    \/ \E h \in Handles, s \in StateVals : SetState(h, s)

\* logging_interval=1, the default
InitDefault == Init /\ interval = 1

Spec == InitDefault /\ [][Next]_vars

\* the logger's process among routines that mutate the topology and their states
NextLog ==
    \/ \E s \in StateVals : add_node("Agent", s)
    \/ \E a, b \in 0..(MaxId - 1) : add_edge(a, b, PyNone)
    \/ \E k \in 0..(MaxId - 1) : remove_node(EnvHandle, k)
    \/ \E h \in Handles, s \in StateVals : SetState(h, s)
    \/ log_current_state
    \/ Advance

SpecLog == Init /\ [][NextLog]_vars

\* the logger sampling a growing population, and the simulation flushing its log
NextTrial ==
    \/ \E s \in StateVals : add_node("Agent", s)
    \/ log_current_state
    \/ Advance
    \/ \E trial_id \in TrialArgs : log_trial_to_files(trial_id)

SpecTrial == Init /\ [][NextTrial]_vars

\* the environment agent growing and rewiring the topology while nodes are removed
NextEdge ==
    \/ \E s \in StateVals : add_node("Agent", s)
    \/ \E a, b \in IdInputs : add_edge(a, b, PyNone)
    \/ \E h \in Handles, k \in IdInputs : remove_node(h, k)

SpecEdge == InitDefault /\ [][NextEdge]_vars

\* the mutations and the lookup, called by the environment agent with arguments that
\* make them fail as well
NextMutate ==
    \/ \E t \in AgentTypes, s \in AddStates : add_node(t, s)
    \/ \E a, b \in IdInputs : add_edge(a, b, PyNone)
    \/ \E k \in IdInputs : remove_node(EnvHandle, k)
    \/ \E k \in IdInputs : GetAgent(EnvHandle, k)

SpecMutate == InitDefault /\ [][NextMutate]_vars

\* the environment agent's own operations, edges given attributes
NextEnv ==
    \/ \E s \in StateVals : add_node("Agent", s)
    \/ \E a, b \in 0..(MaxId - 1), d \in AttrInputs : add_edge(a, b, d)
    \/ log_topology

SpecEnv == InitDefault /\ [][NextEnv]_vars

\* constructions on their own, from a run with an empty topology
InitDirect == InitDefault /\ Len(G.nodes) = 0

NextDirect == \E c \in Calls : Construct(c)

SpecDirect == InitDirect /\ [][NextDirect]_vars

\* the agents' processes over an unbounded run: the environment agent adds nodes, and
\* each process still alive is resumed again and again, where it queries, removes a
\* node, dies, or returns
ProcessIds == 1..(MaxId + 1)

NextLive ==
    \/ \E s \in StateVals : add_node("Agent", s)
    \/ \E h \in processes, k \in 0..(MaxId - 1) : remove_node(h, k)
    \/ \E h \in processes : die(h)
    \/ \E h \in processes : Resume(h)
    \/ \E h \in processes : RoutineReturns(h)

\* the scheduler resumes every process that has a pending event
SpecLive == InitDefault /\ [][NextLive]_vars /\ \A h \in ProcessIds : WF_vars(Resume(h))

\* constructions of agents with every argument passed, and of environment agents
ExplicitCalls == {c \in Calls : c.given = Params}

NextExplicit ==
    \/ \E c \in ExplicitCalls : Construct(c)
    \/ \E cls \in EnvClasses, simulation \in SimArgs : ConstructEnv(cls, simulation)

SpecExplicit == InitDirect /\ [][NextExplicit]_vars

----------------------------------------------------------------------------
(* Claims about the topology operations *)

\* C1: every id add_node returns is strictly greater than every id returned by an
\* earlier add_node of the run, and is not the id of a node removed before, whatever
\* add_node, add_edge and remove_node calls came in between.
C1_AddNodeIdsIncrease ==
    [][\A t \in AgentTypes, s \in AddStates :
          (lastCall'.op = "add_node" /\ lastCall'.err = NoErr /\ add_node(t, s)) =>
              LET k == lastCall'.val[1]
              IN /\ \A i \in DOMAIN returned : returned[i].id < k
                 /\ k \notin removed
                 /\ returned' = Append(returned, [id |-> k, obj |-> lastCall'.obj])]_vars

C1_Witness ==
    /\ Len(returned) >= 2
    /\ returned[1].id \in removed
    /\ lastCall.op = "add_node"
    /\ lastCall.err = NoErr

\* C2: once add_node has returned k and until remove_node(k), get_agent(k) returns the
\* object that call constructed, whose id is k and which is the binding of node k; when
\* add_node returns, the state of that object is the state that was passed.
C2_GetAgentReturnsCreated ==
    /\ \A i \in DOMAIN returned :
          LET r == returned[i]
          IN r.id \notin removed =>
                /\ get_agent(G, r.id) = [err |-> NoErr, val |-> <<r.obj>>]
                /\ G.agent[r.id] = r.obj
                /\ agents[r.obj].id = r.id
    /\ (lastCall.op = "add_node" /\ lastCall.err = NoErr) =>
          /\ returned[Len(returned)].obj = lastCall.obj
          /\ returned[Len(returned)].id = lastCall.val[1]
          /\ agents[lastCall.obj].state = lastCall.state

C2_Witness ==
    /\ Len(returned) >= 2
    /\ returned[1].id \notin removed
    /\ lastCall.op = "get_agent"
    /\ lastCall.val = <<returned[1].obj>>

C4_RemovedStaysRemoved ==
    \A k \in removed :
        /\ ~HasNode(G, k)
        /\ \A e \in DOMAIN G.adj : k \notin e
        /\ get_agent(G, k).err.type = "KeyError"

C4_Witness ==
    /\ removed # {}
    /\ DOMAIN G.adj # {}
    /\ Len(returned) >= 1
    /\ lastCall.op = "get_agent"
    /\ lastCall.err.type = "KeyError"

----------------------------------------------------------------------------
(* Claims about get_agents *)
QueryStates == StateVals \cup {PyNone}

AsSet(r) == Range(r.val)

\* C5 as stated: for every agent, the environment agent and the agents of removed nodes
\* included, get_agents(state, limit_neighbors=True) returns, and returns a subset of
\* get_agents(state, limit_neighbors=False).
C5_NeighborsAlwaysSubset ==
    \A h \in Handles, s \in QueryStates :
        LET near == get_agents(G, agents, agents[h].id, s, TRUE)
            all  == get_agents(G, agents, agents[h].id, s, FALSE)
        IN near.err = NoErr /\ all.err = NoErr /\ AsSet(near) \subseteq AsSet(all)

\* C5 amended: for an agent whose id is a node, the neighbour query returns a subset of
\* the unrestricted query; for an agent whose id is not a node the neighbour query
\* raises a lookup error, and the unrestricted query returns.
C5_NeighborsSubsetOrLookupError ==
    \A h \in Handles, s \in QueryStates :
        LET near == get_agents(G, agents, agents[h].id, s, TRUE)
            all  == get_agents(G, agents, agents[h].id, s, FALSE)
        IN /\ all.err = NoErr
           /\ IF HasNode(G, agents[h].id)
              THEN near.err = NoErr /\ AsSet(near) \subseteq AsSet(all)
              ELSE near.err.type = "NetworkXError"

C5_Witness ==
    /\ lastCall.op = "get_agents"
    /\ \E h \in Handles :
          /\ HasNode(G, agents[h].id)
          /\ Len(get_agents(G, agents, agents[h].id, "'S'", TRUE).val) >= 1
          /\ Len(get_agents(G, agents, agents[h].id, "'S'", FALSE).val) >= 2
          /\ lastCall.val = get_agents(G, agents, agents[h].id, "'S'", TRUE).val

\* the node set a query selects: the nodes adjacent to id, or all nodes
Selected(id, limit_neighbors) ==
    IF limit_neighbors THEN {m \in NodeSet(G) : EdgeKey(id, m) \in DOMAIN G.adj}
    ELSE NodeSet(G)

NoDuplicates(seq) == Cardinality(Range(seq)) = Len(seq)

\* C6: for a caller whose node set is defined (any caller without the neighbour limit,
\* a caller on a node with it), get_agents without a state returns exactly one agent
\* per selected node, so as many as there are selected nodes; with state S it returns
\* exactly the agents of the selected nodes whose current state is S.
C6_GetAgentsSelectsExactly ==
    \A h \in Handles, l \in BOOLEAN :
        (l => HasNode(G, agents[h].id)) =>
            LET sel == Selected(agents[h].id, l)
                any == get_agents(G, agents, agents[h].id, PyNone, l)
            IN /\ any.err = NoErr
               /\ Len(any.val) = Cardinality(sel)
               /\ AsSet(any) = {G.agent[n] : n \in sel}
               /\ NoDuplicates(any.val)
               /\ \A s \in StateVals :
                     LET r == get_agents(G, agents, agents[h].id, s, l)
                     IN /\ r.err = NoErr
                        /\ NoDuplicates(r.val)
                        /\ AsSet(r) = {G.agent[n] : n \in {m \in sel : agents[G.agent[m]].state = s}}

C6_Witness ==
    /\ lastCall.op = "get_agents"
    /\ \E h \in Handles :
          /\ HasNode(G, agents[h].id)
          /\ EdgeKey(agents[h].id, agents[h].id) \in DOMAIN G.adj
          /\ Cardinality(Selected(agents[h].id, TRUE)) = 2
          /\ lastCall.val = get_agents(G, agents, agents[h].id, "'I'", TRUE).val
          /\ Len(lastCall.val) = 1

----------------------------------------------------------------------------
(* Claims about BaseAgent.__init__ *)
ConstructionErrors == {"AssertionError", "TypeError"}

Missing(c, p) == p \notin c.given \/ (p # "agent_id" /\ c[p] = PyNone) \/ (p = "agent_id" /\ c.agent_id = NoneId)

\* C7 as stated, for a class that supplies run(): a construction with environment, agent_id, state or global_topology
\* missing, or with an empty state, fails with a construction error; one with all four
\* supplied and a non-empty scalar, string or structured state does not.
C7_ConstructionChecksArguments ==
    (lastCall.op = "__init__" /\ DefinesRun(lastCall.call.cls)) =>
        LET c == lastCall.call
            empty == c.state \in Sized /\ PyLen(c.state) = 0
        IN /\ ((\E p \in Params : Missing(c, p)) \/ empty) =>
                 lastCall.err.type \in ConstructionErrors
           /\ ((\A p \in Params : ~Missing(c, p)) /\ ~empty) =>
                 lastCall.err.type \notin ConstructionErrors

----------------------------------------------------------------------------
(* Claims about the LoggingAgent *)

\* graph isomorphism: a bijection of the nodes that carries edges onto edges
Isomorphic(t1, t2) ==
    /\ Cardinality(t1.nodes) = Cardinality(t2.nodes)
    /\ \E f \in [t1.nodes -> t2.nodes] :
          /\ \A v, w \in t1.nodes : v # w => f[v] # f[w]
          /\ \A v, w \in t1.nodes : ({v, w} \in t1.edges) <=> ({f[v], f[w]} \in t2.edges)

C9_ChangeAlwaysRecorded ==
    [][(log_current_state /\ ~Isomorphic(topology, StructureOf(G))) =>
          /\ Len(topology_tuples') = Len(topology_tuples) + 1
          /\ topology_tuples'[Len(topology_tuples')].time = now]_vars

SamplingTimes == {t \in 0..now : t % interval = 0}

\* the logger's tick at time t is done
Sampled(t) == t < now \/ loggerWake > now \/ runState = "crashed"

C10_OnePerSamplingTime ==
    /\ \A t \in SamplingTimes :
          Sampled(t) => Cardinality({i \in DOMAIN state_tuples : state_tuples[i].time = t}) = 1
    /\ \A i \in DOMAIN state_tuples :
          state_tuples[i].time \in SamplingTimes /\ Sampled(state_tuples[i].time)

C10_TickAppendsStates ==
    log_current_state =>
        LET new == state_tuples'[Len(state_tuples')]
        IN /\ state_tuples' = Append(state_tuples, new)
           /\ new.time = now
           /\ Len(new.states) = Cardinality(NodeSet(G))
           /\ \A i \in 1..Len(G.nodes) : new.states[i] = agents[G.agent[G.nodes[i]]].state

\* C10: for every sampling time 0, interval, 2*interval, ... the run has reached and the
\* logger has been resumed at, there is exactly one StateTuple with that time, and the
\* tick that appends it stores one state per node, in node order, whatever happened to
\* the topology before.
C10_StateTupleEveryTick == []C10_OnePerSamplingTime /\ [][C10_TickAppendsStates]_vars

C10_Witness ==
    /\ Len(state_tuples) >= 2
    /\ state_tuples[Len(state_tuples)].time >= 1
    /\ Len(state_tuples[Len(state_tuples)].states) >= 2

----------------------------------------------------------------------------
(* Claims about log_trial_to_files *)
ParameterErrors == {"AssertionError", "TypeError"}

\* C11: log_trial_to_files without a trial_id fails with a parameter error, hands
\* nothing to utils.log_all_to_file and leaves state_tuples and topology_tuples as they
\* were; with a trial_id it returns and hands over the whole of state_tuples, under
\* that trial_id, in one call.
C11_LogTrialChecksTrialId ==
    [][\A trial_id \in TrialArgs :
          (lastCall'.op = "log_trial_to_files" /\ log_trial_to_files(trial_id)) =>
              /\ UNCHANGED <<state_tuples, topology_tuples>>
              /\ IF trial_id = NoneId
                 THEN /\ lastCall'.err.type \in ParameterErrors
                      /\ persisted' = persisted
                 ELSE /\ lastCall'.err = NoErr
                      /\ persisted' = Append(persisted, [states |-> state_tuples,
                                                         trial_id |-> trial_id])]_vars

C11_Witness ==
    /\ lastCall.op = "log_trial_to_files"
    /\ lastCall.err.type = "AssertionError"
    /\ Len(persisted) >= 1
    /\ persisted[1].states = state_tuples
    /\ Len(state_tuples) >= 2

----------------------------------------------------------------------------
(* Claims about types without a behaviour routine *)

\* all four arguments given, none of them None, the state sized and not empty
WellFormed(c) ==
    /\ \A p \in Params : ~Missing(c, p)
    /\ c.state \in Sized
    /\ PyLen(c.state) > 0

\* C12: a construction of BaseAgent, BaseNetworkAgent or BaseEnvironmentAgent (no run()
\* of their own) fails, creates no object and registers no process; with arguments
\* that pass the constructor's checks the error is NotImplementedError.
C12_NoRunNoProcess ==
    [][/\ (lastCall'.op = "__init__" /\ ~DefinesRun(lastCall'.call.cls)
            /\ Construct(lastCall'.call)) =>
              /\ lastCall'.err.type # ""
              /\ WellFormed(lastCall'.call) => lastCall'.err.type = "NotImplementedError"
              /\ processes' = processes
              /\ agents' = agents
       /\ \A simulation \in SimArgs :
              (lastCall'.op = "BaseEnvironmentAgent.__init__"
               /\ ConstructEnv("BaseEnvironmentAgent", simulation)) =>
                  /\ lastCall'.err.type # ""
                  /\ simulation # PyNone => lastCall'.err.type = "NotImplementedError"
                  /\ processes' = processes
                  /\ agents' = agents]_vars

C12_Witness ==
    /\ lastCall.op = "__init__"
    /\ lastCall.call.cls = "BaseNetworkAgent"
    /\ WellFormed(lastCall.call)
    /\ lastCall.err.type = "NotImplementedError"
    /\ lastCall.obj = 0
    /\ processes = {EnvHandle}

----------------------------------------------------------------------------
(* Claims about the recording of topology changes *)

C13_TickRecordsChange ==
    (log_current_state /\ ~fast_could_be_isomorphic(topology, StructureOf(G))) =>
        /\ topology' = StructureOf(G)
        /\ topology_tuples' = Append(topology_tuples, [time |-> now, topology |-> topology'])
        /\ runState' = "running"
        /\ loggerWake' = now + interval

\* a step replaces the snapshot exactly when it appends one TopologyTuple
C13_OneTuplePerReplacement ==
    (topology' # topology) <=> (Len(topology_tuples') = Len(topology_tuples) + 1)

\* C13 as stated: at a tick at time t at which the logger finds the topology not
\* equivalent to the snapshot, it replaces the snapshot, appends a TopologyTuple with
\* time t and stays scheduled for the next tick; TopologyTuples and snapshot
\* replacements go one for one.
C13_ChangeRecordedLoggerContinues ==
    [][C13_TickRecordsChange]_vars /\ [][C13_OneTuplePerReplacement]_vars

----------------------------------------------------------------------------
(* Claims about the process of a removed agent *)

\* the agent object h was on a node that has been removed
RemovedAgent(h) == h \in Handles /\ h # EnvHandle /\ agents[h].id \in removed

Resumed(h) == lastCall.op = "resume" /\ lastCall.caller = h

\* a removal ends no process and leaves the run going
C14_RemovalInterruptsNothing ==
    (lastCall'.op = "remove_node" /\ lastCall'.err = NoErr) =>
        (processes' = processes /\ runState' = runState)

\* C14 as stated: the removal of a node interrupts no routine, and from some point on
\* after its node was removed, an agent's process is never resumed again.
C14_RemovedAgentStops ==
    /\ [][C14_RemovalInterruptsNothing]_vars
    /\ \A h \in ProcessIds : <>[](RemovedAgent(h) => ~Resumed(h))

----------------------------------------------------------------------------
(* Claims about edge attributes and log_topology *)

\* C15 as stated: after add_edge(a, b, attrs) has returned, the edge {a, b} exists and
\* its data holds attrs[k] under every key k of attrs, whatever it held before; the
\* nodes, their bindings and every other edge with its data are as before.
C15_AddEdgeStoresAttributes ==
    [][\A a, b \in 0..(MaxId - 1), d \in AttrInputs :
          (lastCall'.op = "add_edge" /\ lastCall'.err = NoErr /\ add_edge(a, b, d)) =>
              /\ HasEdge(G', a, b)
              /\ \A k \in DOMAIN d :
                    /\ k \in DOMAIN G'.adj[EdgeKey(a, b)]
                    /\ G'.adj[EdgeKey(a, b)][k] = d[k]
              /\ G'.nodes = G.nodes
              /\ G'.agent = G.agent
              /\ DOMAIN G'.adj = DOMAIN G.adj \cup {EdgeKey(a, b)}
              /\ \A e \in DOMAIN G.adj \ {EdgeKey(a, b)} : G'.adj[e] = G.adj[e]]_vars

\* C19 as stated: log_topology() raises NotImplementedError to its caller, and leaves
\* the topology, the id counter and the logger's lists as they were.
C19_LogTopologyRaises ==
    [][log_topology =>
          /\ lastCall'.err.type = "NotImplementedError"
          /\ UNCHANGED <<G, id_counter, state_tuples, topology_tuples, topology>>]_vars

----------------------------------------------------------------------------
(* Claims about the shared state as a whole *)

LookupErrors == {"KeyError", "NetworkXError"}

Failed(op) == lastCall'.op = op /\ lastCall'.err # NoErr

----------------------------------------------------------------------------
(* Claims about the logs as a whole *)
IsPrefix(s, t) == Len(s) <= Len(t) /\ \A i \in DOMAIN s : t[i] = s[i]

NonDecreasing(seq) == \A i, j \in DOMAIN seq : i <= j => seq[i].time <= seq[j].time

C18_TimesOrdered ==
    /\ NonDecreasing(state_tuples)
    /\ NonDecreasing(topology_tuples)
    /\ Len(topology_tuples) <= Len(state_tuples)

\* every step keeps the records there are, and only the logger's tick touches the lists
\* and the snapshot
C18_RecordsKept ==
    /\ IsPrefix(state_tuples, state_tuples')
    /\ IsPrefix(topology_tuples, topology_tuples')
    /\ lastCall'.op # "log_current_state" =>
          UNCHANGED <<state_tuples, topology_tuples, topology>>

====
